---- MODULE Spec2Model ----
(***************************************************************************)
(* One run of a Claude Island hook script (cursor-island-state.py or       *)
(* pi-island-state.py): read standard input, parse_input, main's           *)
(* normalisation into the state record, send_event, and the wrapper's      *)
(* print("{}").                                                            *)
(*                                                                         *)
(* Text is a sequence of one-character strings.  A JSON value is a record  *)
(* [t, v]: t is the Python type json.loads produces ("null" is None,       *)
(* "bool", "num", "str", "list", "obj" is dict) and v its content: a str   *)
(* is its characters, a num is its literal, a list its items, an obj the   *)
(* sequence of its <<key, value>> pairs in insertion order.                *)
(***************************************************************************)
EXTENDS Integers, Sequences, FiniteSets, TLC

\* ------------------------------------------------------------ JSON values

JNull == [t |-> "null", v |-> <<>>]
JBool(b) == [t |-> "bool", v |-> b]
JNum(txt) == [t |-> "num", v |-> txt]
JStr(txt) == [t |-> "str", v |-> txt]
JList(items) == [t |-> "list", v |-> items]
JObj(pairs) == [t |-> "obj", v |-> pairs]

IsStr(x) == x.t = "str"
IsObj(x) == x.t = "obj"

\* x == "literal" in Python: never raises, False across types.
StrEq(x, txt) == x.t = "str" /\ x.v = txt

HasKey(d, k) == \E n \in 1..Len(d.v) : d.v[n][1] = k

\* d[k] for a key that is present.
Lookup(d, k) == d.v[CHOOSE n \in 1..Len(d.v) : d.v[n][1] = k][2]

\* dict.get(k, default)
Get(d, k, default) == IF HasKey(d, k) THEN Lookup(d, k) ELSE default

\* d[k] = x: an existing key keeps its place, a new key goes last.
Put(d, k, x) ==
    IF HasKey(d, k)
    THEN JObj([n \in 1..Len(d.v) |-> IF d.v[n][1] = k THEN <<k, x>> ELSE d.v[n]])
    ELSE JObj(Append(d.v, <<k, x>>))

Digits == {"0", "1", "2", "3", "4", "5", "6", "7", "8", "9"}
HexDigits == Digits \cup {"a", "b", "c", "d", "e", "f", "A", "B", "C", "D", "E", "F"}

\* The digits of a number literal before its exponent.
RECURSIVE Mantissa(_)
Mantissa(txt) ==
    IF txt = <<>> \/ Head(txt) \in {"e", "E"} THEN <<>>
    ELSE <<Head(txt)>> \o Mantissa(Tail(txt))

\* A number is false exactly when it is zero (0, -0, 0.0, 0e5); NaN and the
\* infinities are true.
IsZeroNum(txt) == \A n \in 1..Len(Mantissa(txt)) : Mantissa(txt)[n] \in {"-", "0", "."}

\* Python truth value: None, False, 0, "", [] and {} are false.
Truthy(x) ==
    CASE x.t = "null" -> FALSE
      [] x.t = "bool" -> x.v
      [] x.t = "num" -> ~IsZeroNum(x.v)
      [] OTHER -> Len(x.v) > 0

\* a or b
Or(a, b) == IF Truthy(a) THEN a ELSE b

\* ------------------------------------------------------------- json.loads

WHITESPACE == {" ", "\t", "\n", "\r"}

\* Characters below 0x20, which a strict JSON string may not hold unescaped.
\* Backspace and form feed have no TLA+ escape and are named.
BS == "<BS>"
FF == "<FF>"
ControlChars == {"\t", "\n", "\r", FF, BS}

Fail == [ok |-> FALSE, v |-> JNull, end |-> 0]
Ok(x, e) == [ok |-> TRUE, v |-> x, end |-> e]

\* s[i:i+1], with "" past the end.
At(s, i) == IF i >= 1 /\ i <= Len(s) THEN s[i] ELSE ""

\* s[i:i+n] = lit
StartsAt(s, i, lit) == i + Len(lit) - 1 <= Len(s) /\ SubSeq(s, i, i + Len(lit) - 1) = lit

\* The index after the whitespace that starts at i.
RECURSIVE SkipWs(_, _)
SkipWs(s, i) == IF At(s, i) \in WHITESPACE THEN SkipWs(s, i + 1) ELSE i

\* The character an escape sequence \c stands for.
BACKSLASH(c) ==
    CASE c = "b" -> BS
      [] c = "f" -> FF
      [] c = "n" -> "\n"
      [] c = "r" -> "\r"
      [] c = "t" -> "\t"
      [] OTHER -> c

\* The first index from i on of a character of set, 0 when there is none.
FirstIn(s, i, set) ==
    IF \E n \in i..Len(s) : s[n] \in set
    THEN CHOOSE n \in i..Len(s) : s[n] \in set /\ \A m \in i..(n - 1) : s[m] \notin set
    ELSE 0

\* scanstring: i is the index after the opening quote or after an escape,
\* acc the characters so far.  As in py_scanstring, a chunk of plain
\* characters is taken up to its terminator: the closing quote, a backslash
\* or a control character.  A \uXXXX escape is kept as one symbolic character.
RECURSIVE scanstring(_, _, _)
scanstring(s, i, acc) ==
    LET Escape(e, chunk) ==
            IF At(s, e + 1) \in {"\"", "\\", "/", "b", "f", "n", "r", "t"}
            THEN scanstring(s, e + 2, Append(chunk, BACKSLASH(s[e + 1])))
            ELSE IF At(s, e + 1) = "u" /\ \A n \in 2..5 : At(s, e + n) \in HexDigits
            THEN scanstring(s, e + 6,
                     Append(chunk, "\\u" \o s[e + 2] \o s[e + 3] \o s[e + 4] \o s[e + 5]))
            ELSE Fail
        Terminator(e) ==
            IF e = 0 THEN Fail
            ELSE IF s[e] = "\"" THEN Ok(JStr(acc \o SubSeq(s, i, e - 1)), e + 1)
            ELSE IF s[e] = "\\" THEN Escape(e, acc \o SubSeq(s, i, e - 1))
            ELSE Fail
    IN  Terminator(FirstIn(s, i, {"\"", "\\"} \cup ControlChars))

\* The index after the run of digits that starts at i.
RECURSIVE SkipDigits(_, _)
SkipDigits(s, i) == IF At(s, i) \in Digits THEN SkipDigits(s, i + 1) ELSE i

\* NUMBER_RE.match(s, i), the pattern (-?(?:0|[1-9]\d*))(\.\d+)?([eE][-+]?\d+)?:
\* the index after the longest number literal at i, or 0 when there is none.
match_number(s, i) ==
    LET Exponent(f, x) == IF At(s, x) \in Digits THEN SkipDigits(s, x) ELSE f
        Fraction(f) ==
            IF At(s, f) \in {"e", "E"}
            THEN Exponent(f, IF At(s, f + 1) \in {"+", "-"} THEN f + 2 ELSE f + 1)
            ELSE f
        Integer(k) ==
            IF k = 0 THEN 0
            ELSE Fraction(IF At(s, k) = "." /\ At(s, k + 1) \in Digits
                          THEN SkipDigits(s, k + 1) ELSE k)
        Sign(j) ==
            Integer(IF At(s, j) = "0" THEN j + 1
                    ELSE IF At(s, j) \in Digits THEN SkipDigits(s, j)
                    ELSE 0)
    IN  Sign(IF At(s, i) = "-" THEN i + 1 ELSE i)

L_null == <<"n", "u", "l", "l">>
L_true == <<"t", "r", "u", "e">>
L_false == <<"f", "a", "l", "s", "e">>
L_NaN == <<"N", "a", "N">>
L_Infinity == <<"I", "n", "f", "i", "n", "i", "t", "y">>
L_NegInfinity == <<"-">> \o L_Infinity

RECURSIVE scan_once(_, _)
RECURSIVE JSONObjectMembers(_, _, _)
RECURSIVE JSONArrayItems(_, _, _)

\* JSONObject's loop: i is the index after the opening quote of a key.  A
\* repeated key keeps its first place and takes the last value.
JSONObjectMembers(s, i, acc) ==
    LET NextKey(next, members) ==
            IF At(s, next) # "\"" THEN Fail
            ELSE JSONObjectMembers(s, next + 1, members)
        Delimiter(after, members) ==
            IF At(s, after) = "}" THEN Ok(members, after + 1)
            ELSE IF At(s, after) # "," THEN Fail
            ELSE NextKey(SkipWs(s, after + 1), members)
        Value(key, val) ==
            IF ~val.ok THEN Fail
            ELSE Delimiter(SkipWs(s, val.end), Put(acc, key, val.v))
        Colon(key, colon) ==
            IF At(s, colon) # ":" THEN Fail
            ELSE Value(key, scan_once(s, SkipWs(s, colon + 1)))
        Key(key) == IF ~key.ok THEN Fail ELSE Colon(key.v.v, SkipWs(s, key.end))
    IN  Key(scanstring(s, i, <<>>))

\* JSONObject: i is the index after the "{".
JSONObject(s, i) ==
    LET First(j) ==
            IF At(s, j) = "}" THEN Ok(JObj(<<>>), j + 1)
            ELSE IF At(s, j) # "\"" THEN Fail
            ELSE JSONObjectMembers(s, j + 1, JObj(<<>>))
    IN  First(SkipWs(s, i))

\* JSONArray's loop: i is the index of an item.
JSONArrayItems(s, i, acc) ==
    LET Delimiter(after, items) ==
            IF At(s, after) = "]" THEN Ok(JList(items), after + 1)
            ELSE IF At(s, after) # "," THEN Fail
            ELSE JSONArrayItems(s, SkipWs(s, after + 1), items)
        Item(val) ==
            IF ~val.ok THEN Fail
            ELSE Delimiter(SkipWs(s, val.end), Append(acc, val.v))
    IN  Item(scan_once(s, i))

\* JSONArray: i is the index after the "[".
JSONArray(s, i) ==
    LET First(j) ==
            IF At(s, j) = "]" THEN Ok(JList(<<>>), j + 1)
            ELSE JSONArrayItems(s, j, <<>>)
    IN  First(SkipWs(s, i))

\* scan_once: the JSON value that starts at index i.
scan_once(s, i) ==
    LET Number(m) ==
            IF m # 0 THEN Ok(JNum(SubSeq(s, i, m - 1)), m)
            ELSE IF StartsAt(s, i, L_NaN) THEN Ok(JNum(L_NaN), i + 3)
            ELSE IF StartsAt(s, i, L_Infinity) THEN Ok(JNum(L_Infinity), i + 8)
            ELSE IF StartsAt(s, i, L_NegInfinity) THEN Ok(JNum(L_NegInfinity), i + 9)
            ELSE Fail
        Value(c) ==
            IF c = "\"" THEN scanstring(s, i + 1, <<>>)
            ELSE IF c = "{" THEN JSONObject(s, i + 1)
            ELSE IF c = "[" THEN JSONArray(s, i + 1)
            ELSE IF StartsAt(s, i, L_null) THEN Ok(JNull, i + 4)
            ELSE IF StartsAt(s, i, L_true) THEN Ok(JBool(TRUE), i + 4)
            ELSE IF StartsAt(s, i, L_false) THEN Ok(JBool(FALSE), i + 5)
            ELSE Number(match_number(s, i))
    IN  Value(At(s, i))

\* json.loads(s): ok is FALSE when it raises (no value, or extra data after
\* the value).
Loads(s) ==
    LET End(r) == IF r.ok /\ SkipWs(s, r.end) = Len(s) + 1 THEN r ELSE Fail
    IN  End(scan_once(s, SkipWs(s, 1)))

\* ------------------------------------------------------------- json.dumps

RECURSIVE Join(_, _)
Join(parts, sep) ==
    IF parts = <<>> THEN <<>>
    ELSE IF Len(parts) = 1 THEN parts[1]
    ELSE parts[1] \o sep \o Join(Tail(parts), sep)

\* The escape of one character inside a JSON string.
EscapeChar(c) ==
    CASE c = "\"" -> <<"\\", "\"">>
      [] c = "\\" -> <<"\\", "\\">>
      [] c = "\n" -> <<"\\", "n">>
      [] c = "\r" -> <<"\\", "r">>
      [] c = "\t" -> <<"\\", "t">>
      [] c = FF -> <<"\\", "f">>
      [] c = BS -> <<"\\", "b">>
      [] OTHER -> <<c>>

\* The characters json.dumps escapes inside a string.
Escaped == {"\"", "\\"} \cup ControlChars

\* Every escaped character of txt replaced by its escape.
RECURSIVE EncodeChars(_)
EncodeChars(txt) ==
    LET Replace(e) ==
            IF e = 0 THEN txt
            ELSE SubSeq(txt, 1, e - 1) \o EscapeChar(txt[e])
                 \o EncodeChars(SubSeq(txt, e + 1, Len(txt)))
    IN  Replace(FirstIn(txt, 1, Escaped))

encode_basestring(txt) == <<"\"">> \o EncodeChars(txt) \o <<"\"">>

\* json.dumps(x) with the default separators ", " and ": ".
RECURSIVE Dumps(_)
Dumps(x) ==
    CASE x.t = "null" -> L_null
      [] x.t = "bool" -> IF x.v THEN L_true ELSE L_false
      [] x.t = "num" -> x.v
      [] x.t = "str" -> encode_basestring(x.v)
      [] x.t = "list" ->
            <<"[">> \o Join([n \in 1..Len(x.v) |-> Dumps(x.v[n])], <<",", " ">>) \o <<"]">>
      [] x.t = "obj" ->
            <<"{">> \o Join([n \in 1..Len(x.v) |->
                                encode_basestring(x.v[n][1]) \o <<":", " ">> \o Dumps(x.v[n][2])],
                            <<",", " ">>) \o <<"}">>

\* The keys main reads from the event and writes to the state record.
K_session_id == <<"s", "e", "s", "s", "i", "o", "n", "_", "i", "d">>
K_conversation_id == <<"c", "o", "n", "v", "e", "r", "s", "a", "t", "i", "o", "n", "_", "i", "d">>
K_hook_event_name == <<"h", "o", "o", "k", "_", "e", "v", "e", "n", "t", "_", "n", "a", "m", "e">>
K_workspace_roots == <<"w", "o", "r", "k", "s", "p", "a", "c", "e", "_", "r", "o", "o", "t", "s">>
K_cwd == <<"c", "w", "d">>
K_tool_input == <<"t", "o", "o", "l", "_", "i", "n", "p", "u", "t">>
K_transcript_path == <<"t", "r", "a", "n", "s", "c", "r", "i", "p", "t", "_", "p", "a", "t", "h">>
K_tool_use_id == <<"t", "o", "o", "l", "_", "u", "s", "e", "_", "i", "d">>
K_tool_name == <<"t", "o", "o", "l", "_", "n", "a", "m", "e">>
K_event == <<"e", "v", "e", "n", "t">>
K_agent_type == <<"a", "g", "e", "n", "t", "_", "t", "y", "p", "e">>
K_status == <<"s", "t", "a", "t", "u", "s">>
K_tool == <<"t", "o", "o", "l">>
K_tool_display == <<"t", "o", "o", "l", "_", "d", "i", "s", "p", "l", "a", "y">>

\* The string literals of main.
S_unknown == <<"u", "n", "k", "n", "o", "w", "n">>
S_ephemeral == <<"e", "p", "h", "e", "m", "e", "r", "a", "l">>
S_txt == <<".", "t", "x", "t">>
S_jsonl == <<".", "j", "s", "o", "n", "l">>
S_cursor == <<"c", "u", "r", "s", "o", "r">>
S_pi == <<"p", "i">>
S_Shell == <<"S", "h", "e", "l", "l">>
S_Bash == <<"B", "a", "s", "h">>
S_processing == <<"p", "r", "o", "c", "e", "s", "s", "i", "n", "g">>
S_running_tool == <<"r", "u", "n", "n", "i", "n", "g", "_", "t", "o", "o", "l">>
S_waiting_for_input ==
    <<"w", "a", "i", "t", "i", "n", "g", "_", "f", "o", "r", "_", "i", "n", "p", "u", "t">>
S_ended == <<"e", "n", "d", "e", "d">>
S_compacting == <<"c", "o", "m", "p", "a", "c", "t", "i", "n", "g">>

\* The hook event names main tests for.
E_beforeSubmitPrompt ==
    <<"b", "e", "f", "o", "r", "e", "S", "u", "b", "m", "i", "t", "P", "r", "o", "m", "p", "t">>
E_preToolUse == <<"p", "r", "e", "T", "o", "o", "l", "U", "s", "e">>
E_postToolUse == <<"p", "o", "s", "t", "T", "o", "o", "l", "U", "s", "e">>
E_stop == <<"s", "t", "o", "p">>
E_subagentStop == <<"s", "u", "b", "a", "g", "e", "n", "t", "S", "t", "o", "p">>
E_sessionStart == <<"s", "e", "s", "s", "i", "o", "n", "S", "t", "a", "r", "t">>
E_sessionEnd == <<"s", "e", "s", "s", "i", "o", "n", "E", "n", "d">>
E_preCompact == <<"p", "r", "e", "C", "o", "m", "p", "a", "c", "t">>

\* --------------------------------------------------------- str operations

\* s.endswith(suffix)
endswith(s, suffix) ==
    Len(s) >= Len(suffix) /\ SubSeq(s, Len(s) - Len(suffix) + 1, Len(s)) = suffix

\* s.find(c): the first index of c, 0 when there is none (indices count from
\* 1 here, so Python's -1 is 0).
find(s, c) ==
    IF \E n \in 1..Len(s) : s[n] = c
    THEN CHOOSE n \in 1..Len(s) : s[n] = c /\ \A m \in 1..(n - 1) : s[m] # c
    ELSE 0

\* s.rfind(c): the last index of c, 0 when there is none.
rfind(s, c) ==
    IF \E n \in 1..Len(s) : s[n] = c
    THEN CHOOSE n \in 1..Len(s) : s[n] = c /\ \A m \in (n + 1)..Len(s) : s[m] # c
    ELSE 0

\* os.path.basename(p) of a str: what follows the last "/".
basename(p) == SubSeq(p, rfind(p, "/") + 1, Len(p))

\* s.split("_", 1)
split_once(s) ==
    IF find(s, "_") = 0 THEN <<s>>
    ELSE <<SubSeq(s, 1, find(s, "_") - 1), SubSeq(s, find(s, "_") + 1, Len(s))>>

\* ------------------------------------------------------------------- main

\* An expression of main either raises or has a value.
Raise == [raised |-> TRUE, v |-> JNull]
Ret(x) == [raised |-> FALSE, v |-> x]

\* x[0] of a true x: the first item of a list, the first character of a str;
\* a dict has no key 0 (KeyError), a number or True has no items (TypeError).
Subscript0(x) ==
    CASE x.t = "list" -> Ret(x.v[1])
      [] x.t = "str" -> Ret(JStr(<<x.v[1]>>))
      [] OTHER -> Raise

\* "/" in x: a character of a str, an item of a list, a key of a dict; a
\* number or a bool is not iterable (TypeError).
ContainsSlash(x) ==
    CASE x.t = "str" -> Ret(JBool(\E n \in 1..Len(x.v) : x.v[n] = "/"))
      [] x.t = "list" -> Ret(JBool(\E n \in 1..Len(x.v) : StrEq(x.v[n], <<"/">>)))
      [] x.t = "obj" -> Ret(JBool(HasKey(x, <<"/">>)))
      [] OTHER -> Raise

\* workspace_roots = data.get("workspace_roots") or []
workspace_roots_of(data) == Or(Get(data, K_workspace_roots, JNull), JList(<<>>))

\* workspace_roots[0] if workspace_roots else ""
first_root(workspace_roots) ==
    IF Truthy(workspace_roots) THEN Subscript0(workspace_roots) ELSE Ret(JStr(<<>>))

\* tool_input: a str is parsed as JSON, {} when it is empty or does not
\* parse; any other value is kept.
tool_input_of(data) ==
    LET Parsed(r) == IF r.ok THEN r.v ELSE JObj(<<>>)
        Coerce(tool_input) ==
            IF ~IsStr(tool_input) THEN tool_input
            ELSE IF ~Truthy(tool_input) THEN JObj(<<>>)
            ELSE Parsed(Loads(tool_input.v))
    IN  Coerce(Get(data, K_tool_input, JObj(<<>>)))

\* The tool keys of a preToolUse or postToolUse record.
cursor_tool_fields(state, data, tool_input, tool_use_id) ==
    LET s1 == Put(state, K_tool, Get(data, K_tool_name, JNull))
        s2 == Put(s1, K_tool_input, tool_input)
        s3 == IF Truthy(tool_use_id) THEN Put(s2, K_tool_use_id, tool_use_id) ELSE s2
    IN  IF StrEq(Get(s3, K_tool, JNull), S_Shell)
        THEN Put(s3, K_tool_display, JStr(S_Bash))
        ELSE s3

\* cursor_map_event with the tool keys set for every event whose status is
\* processing, beforeSubmitPrompt too.
cursor_map_event_tools_on_processing(state, data, event, tool_input, tool_use_id) ==
    IF StrEq(event, E_beforeSubmitPrompt) \/ StrEq(event, E_postToolUse)
    THEN cursor_tool_fields(Put(state, K_status, JStr(S_processing)),
                            data, tool_input, tool_use_id)
    ELSE IF StrEq(event, E_preToolUse)
    THEN cursor_tool_fields(Put(state, K_status, JStr(S_running_tool)),
                            data, tool_input, tool_use_id)
    ELSE IF StrEq(event, E_stop) THEN Put(state, K_status, JStr(S_waiting_for_input))
    ELSE IF StrEq(event, E_subagentStop) THEN Put(state, K_status, JStr(S_waiting_for_input))
    ELSE IF StrEq(event, E_sessionStart) THEN Put(state, K_status, JStr(S_waiting_for_input))
    ELSE IF StrEq(event, E_sessionEnd) THEN Put(state, K_status, JStr(S_ended))
    ELSE IF StrEq(event, E_preCompact) THEN Put(state, K_status, JStr(S_compacting))
    ELSE Put(state, K_status, JStr(S_unknown))

\* cursor: map hook event names to status.
cursor_map_event(state, data, event, tool_input, tool_use_id) ==
    IF StrEq(event, E_beforeSubmitPrompt) THEN Put(state, K_status, JStr(S_processing))
    ELSE IF StrEq(event, E_preToolUse)
    THEN cursor_tool_fields(Put(state, K_status, JStr(S_running_tool)),
                            data, tool_input, tool_use_id)
    ELSE IF StrEq(event, E_postToolUse)
    THEN cursor_tool_fields(Put(state, K_status, JStr(S_processing)),
                            data, tool_input, tool_use_id)
    ELSE IF StrEq(event, E_stop) THEN Put(state, K_status, JStr(S_waiting_for_input))
    ELSE IF StrEq(event, E_subagentStop) THEN Put(state, K_status, JStr(S_waiting_for_input))
    ELSE IF StrEq(event, E_sessionStart) THEN Put(state, K_status, JStr(S_waiting_for_input))
    ELSE IF StrEq(event, E_sessionEnd) THEN Put(state, K_status, JStr(S_ended))
    ELSE IF StrEq(event, E_preCompact) THEN Put(state, K_status, JStr(S_compacting))
    ELSE Put(state, K_status, JStr(S_unknown))

\* cursor: session_id = conversation_id or session_id or "unknown"
cursor_session_id(data) ==
    Or(Or(Get(data, K_conversation_id, JNull), Get(data, K_session_id, JNull)),
       JStr(S_unknown))

\* cursor: transcript_path, its .txt rewritten to .jsonl; a true value that
\* is no str has no endswith (AttributeError).
cursor_transcript_path(data) ==
    LET transcript_path == Get(data, K_transcript_path, JStr(<<>>))
    IN  IF ~Truthy(transcript_path) THEN Ret(transcript_path)
        ELSE IF ~IsStr(transcript_path) THEN Raise
        ELSE IF endswith(transcript_path.v, S_txt)
        THEN Ret(JStr(SubSeq(transcript_path.v, 1, Len(transcript_path.v) - 4) \o S_jsonl))
        ELSE Ret(transcript_path)

\* The state dict as first built, transcript_path added when it is true.
build_state(session_id, cwd, event, agent_type, transcript_path) ==
    LET state == JObj(<< <<K_session_id, session_id>>,
                         <<K_cwd, cwd>>,
                         <<K_event, event>>,
                         <<K_agent_type, JStr(agent_type)>>,
                         <<K_status, JStr(S_unknown)>> >>)
    IN  IF Truthy(transcript_path) THEN Put(state, K_transcript_path, transcript_path)
        ELSE state

\* cursor main() from data to the state it hands to send_event; data.get
\* raises (AttributeError) when data is no dict.
cursor_main(data) ==
    IF ~IsObj(data) THEN Raise
    ELSE LET session_id == cursor_session_id(data)
             event == Get(data, K_hook_event_name, JStr(<<>>))
             cwd == first_root(workspace_roots_of(data))
             tool_input == tool_input_of(data)
             transcript_path == cursor_transcript_path(data)
             tool_use_id == Get(data, K_tool_use_id, JStr(<<>>))
         IN  IF cwd.raised \/ transcript_path.raised THEN Raise
             ELSE Ret(cursor_map_event(
                          build_state(session_id, cwd.v, event, S_cursor, transcript_path.v),
                          data, event, tool_input, tool_use_id))

\* pi: the tool keys of a preToolUse or postToolUse record.
pi_tool_fields(state, data, tool_input, tool_use_id) ==
    LET s1 == Put(state, K_tool, Get(data, K_tool_name, JNull))
        s2 == Put(s1, K_tool_input, tool_input)
        s3 == IF Truthy(tool_use_id) THEN Put(s2, K_tool_use_id, tool_use_id) ELSE s2
    IN  IF StrEq(Get(s3, K_tool, JNull), S_Shell)
        THEN Put(s3, K_tool_display, JStr(S_Bash))
        ELSE s3

\* pi_map_event without the subagentStop branch: the event falls through to
\* unknown.
pi_map_event_without_subagentStop(state, data, event, tool_input, tool_use_id) ==
    IF StrEq(event, E_beforeSubmitPrompt) THEN Put(state, K_status, JStr(S_processing))
    ELSE IF StrEq(event, E_preToolUse)
    THEN pi_tool_fields(Put(state, K_status, JStr(S_running_tool)),
                        data, tool_input, tool_use_id)
    ELSE IF StrEq(event, E_postToolUse)
    THEN pi_tool_fields(Put(state, K_status, JStr(S_processing)),
                        data, tool_input, tool_use_id)
    ELSE IF StrEq(event, E_stop) THEN Put(state, K_status, JStr(S_waiting_for_input))
    ELSE IF StrEq(event, E_sessionStart) THEN Put(state, K_status, JStr(S_waiting_for_input))
    ELSE IF StrEq(event, E_sessionEnd) THEN Put(state, K_status, JStr(S_ended))
    ELSE IF StrEq(event, E_preCompact) THEN Put(state, K_status, JStr(S_compacting))
    ELSE Put(state, K_status, JStr(S_unknown))

\* pi: map hook event names to status.
pi_map_event(state, data, event, tool_input, tool_use_id) ==
    IF StrEq(event, E_beforeSubmitPrompt) THEN Put(state, K_status, JStr(S_processing))
    ELSE IF StrEq(event, E_preToolUse)
    THEN pi_tool_fields(Put(state, K_status, JStr(S_running_tool)),
                        data, tool_input, tool_use_id)
    ELSE IF StrEq(event, E_postToolUse)
    THEN pi_tool_fields(Put(state, K_status, JStr(S_processing)),
                        data, tool_input, tool_use_id)
    ELSE IF StrEq(event, E_stop) THEN Put(state, K_status, JStr(S_waiting_for_input))
    ELSE IF StrEq(event, E_subagentStop) THEN Put(state, K_status, JStr(S_waiting_for_input))
    ELSE IF StrEq(event, E_sessionStart) THEN Put(state, K_status, JStr(S_waiting_for_input))
    ELSE IF StrEq(event, E_sessionEnd) THEN Put(state, K_status, JStr(S_ended))
    ELSE IF StrEq(event, E_preCompact) THEN Put(state, K_status, JStr(S_compacting))
    ELSE Put(state, K_status, JStr(S_unknown))

\* pi_path_to_id without the strip of the .jsonl extension.
pi_path_to_id_keeps_extension(path) ==
    LET parts == split_once(basename(path))
    IN  IF Len(parts) = 2 THEN parts[2] ELSE basename(path)

\* pi: the identifier in the name of a session file: the basename without
\* .jsonl, and of <timestamp>_<uuid> what follows the first "_".
pi_path_to_id(path) ==
    LET base == basename(path)
        stem == IF endswith(base, S_jsonl) THEN SubSeq(base, 1, Len(base) - 6) ELSE base
        parts == split_once(stem)
    IN  IF Len(parts) = 2 THEN parts[2] ELSE stem

\* pi: session_id and transcript_path from the raw session_id.  A raw value
\* with "/" in it is taken as the path of the session file; os.path.basename
\* raises (TypeError) on a list or a dict.
pi_session(raw_session_id) ==
    LET slash == IF Truthy(raw_session_id) THEN ContainsSlash(raw_session_id)
                 ELSE Ret(JBool(FALSE))
        kept == [session_id |-> raw_session_id, transcript_path |-> JStr(<<>>)]
    IN  IF slash.raised THEN Raise
        ELSE IF ~slash.v.v THEN Ret(kept)
        ELSE IF ~IsStr(raw_session_id) THEN Raise
        ELSE Ret([session_id |-> JStr(pi_path_to_id(raw_session_id.v)),
                  transcript_path |-> raw_session_id])

\* pi: if not session_id or session_id == "ephemeral": session_id = "unknown"
pi_session_id(session_id) ==
    IF ~Truthy(session_id) \/ StrEq(session_id, S_ephemeral) THEN JStr(S_unknown)
    ELSE session_id

\* pi: cwd = data.get("cwd") or (workspace_roots[0] if workspace_roots else "")
pi_cwd(data) ==
    IF Truthy(Get(data, K_cwd, JNull)) THEN Ret(Get(data, K_cwd, JNull))
    ELSE first_root(workspace_roots_of(data))

\* pi main() from data to the state it hands to send_event.
pi_main(data) ==
    IF ~IsObj(data) THEN Raise
    ELSE LET raw_session_id == Or(Get(data, K_session_id, JNull), JStr(<<>>))
             event == Get(data, K_hook_event_name, JStr(<<>>))
             cwd == pi_cwd(data)
             tool_input == tool_input_of(data)
             session == pi_session(raw_session_id)
             tool_use_id == Get(data, K_tool_use_id, JStr(<<>>))
         IN  IF cwd.raised \/ session.raised THEN Raise
             ELSE Ret(pi_map_event(
                          build_state(pi_session_id(session.v.session_id), cwd.v, event,
                                      S_pi, session.v.transcript_path),
                          data, event, tool_input, tool_use_id))

\* ----------------------------------------------------------------- inputs

\* The longest text of ShortTexts.
MaxLen == 4

\* The characters parse_input tells apart, and one that starts a JSON value
\* that is no object.
Alphabet == {"{", "}", "\"", "\\", "1"}

\* Every text over Alphabet of at most MaxLen characters.
ShortTexts == UNION {[1..n -> Alphabet] : n \in 0..MaxLen}

\* The values of hook_event_name the events take: the eight names main tests
\* for, two other names and a number.
HookValues ==
    << JStr(E_beforeSubmitPrompt),
       JStr(E_preToolUse),
       JStr(E_postToolUse),
       JStr(E_stop),
       JStr(E_subagentStop),
       JStr(E_sessionStart),
       JStr(E_sessionEnd),
       JStr(E_preCompact),
       JStr(<<"o", "t", "h", "e", "r">>),
       JStr(<<"P", "r", "e", "T", "o", "o", "l", "U", "s", "e">>),
       JNum(<<"1">>) >>

\* The other fields of an event, as the <<key, value>> pairs of its object:
\* each field takes values of the type the script expects and of every other
\* JSON type.
Scenarios ==
    << <<>>,
       <<<<K_session_id, JStr(<<"s", "1">>)>>>>,
       <<<<K_session_id, JStr(<<>>)>>>>,
       <<<<K_session_id, JStr(<<"e", "p", "h", "e", "m", "e", "r", "a", "l">>)>>>>,
       <<<<K_session_id, JStr(<<"/", "s", "/", "1", "T", "2", "_", "5", "e", "-", "4", "a", ".",
          "j", "s", "o", "n", "l">>)>>>>,
       <<<<K_session_id, JStr(<<"1", "T", "2", "_", "5", "e", "-", "4", "a", ".", "j", "s", "o",
          "n", "l">>)>>>>,
       <<<<K_session_id, JStr(<<"2", "0", "2", "4", "0", "1", "0", "1", "T", "0", "0", "0", "0",
          "0", "0", "_", "5", "5", "0", "e", "8", "4", "0", "0", "-", "e", "2", "9", "b",
          "-", "4", "1", "d", "4", "-", "a", "7", "1", "6", "-", "4", "4", "6", "6", "5",
          "5", "4", "4", "0", "0", "0", "0", ".", "j", "s", "o", "n", "l">>)>>>>,
       <<<<K_session_id, JStr(<<"/", "s", "/", "2", "0", "2", "4", "0", "1", "0", "1", "T", "0",
          "0", "0", "0", "0", "0", "_", "5", "5", "0", "e", "8", "4", "0", "0", "-", "e",
          "2", "9", "b", "-", "4", "1", "d", "4", "-", "a", "7", "1", "6", "-", "4", "4",
          "6", "6", "5", "5", "4", "4", "0", "0", "0", "0", ".", "j", "s", "o", "n",
          "l">>)>>>>,
       <<<<K_session_id, JStr(<<"/", "s", "/", "5", "e", "-", "4", "a", ".", "j", "s", "o", "n",
          "l">>)>>>>,
       <<<<K_session_id, JStr(<<"/", "s", "/", "1", "T", "2", "_", "5", "e", "-", "4", "a">>)>>>>,
       <<<<K_session_id, JStr(<<"/">>)>>>>,
       <<<<K_session_id, JStr(<<"/", "s", "/", "1", "T", "2", "_", ".", "j", "s", "o", "n",
          "l">>)>>>>,
       <<<<K_session_id, JStr(<<"/", "s", "/", "e", "p", "h", "e", "m", "e", "r", "a", "l", ".",
          "j", "s", "o", "n", "l">>)>>>>,
       <<<<K_session_id, JStr(<<"s", "/", "1", "T", "2", "_", "5", "e", "_", "4", "a", ".", "j",
          "s", "o", "n", "l">>)>>>>,
       <<<<K_session_id, JStr(<<"/", "s", "/", "1", "T", "2", "_", "5", "e", "-", "4", "a", ".",
          "j", "s", "o", "n", "l", "/">>)>>>>,
       <<<<K_session_id, JNum(<<"5">>)>>>>,
       <<<<K_session_id, JNum(<<"0">>)>>>>,
       <<<<K_session_id, JBool(TRUE)>>>>,
       <<<<K_session_id, JBool(FALSE)>>>>,
       <<<<K_session_id, JNull>>>>,
       <<<<K_session_id, JList(<<JStr(<<"/">>)>>)>>>>,
       <<<<K_session_id, JList(<<JStr(<<"a">>)>>)>>>>,
       <<<<K_session_id, JList(<<>>)>>>>,
       <<<<K_session_id, JObj(<<<<<<"/">>, JNum(<<"1">>)>>>>)>>>>,
       <<<<K_session_id, JObj(<<<<<<"a">>, JNum(<<"1">>)>>>>)>>>>,
       <<<<K_session_id, JObj(<<>>)>>>>,
       <<<<K_conversation_id, JStr(<<"c", "1">>)>>>>,
       <<<<K_conversation_id, JStr(<<>>)>>>>,
       <<<<K_conversation_id, JStr(<<"e", "p", "h", "e", "m", "e", "r", "a", "l">>)>>>>,
       <<<<K_conversation_id, JNum(<<"5">>)>>>>,
       <<<<K_conversation_id, JNum(<<"0">>)>>>>,
       <<<<K_conversation_id, JBool(TRUE)>>>>,
       <<<<K_conversation_id, JNull>>>>,
       <<<<K_conversation_id, JList(<<JStr(<<"a">>)>>)>>>>,
       <<<<K_conversation_id, JObj(<<<<<<"a">>, JNum(<<"1">>)>>>>)>>>>,
       <<<<K_conversation_id, JStr(<<"c", "1">>)>>, <<K_session_id, JStr(<<"s", "1">>)>>>>,
       <<<<K_conversation_id, JStr(<<>>)>>, <<K_session_id, JStr(<<"s", "1">>)>>>>,
       <<<<K_conversation_id, JNull>>, <<K_session_id, JStr(<<"/", "s", "/", "1", "T", "2", "_",
          "5", "e", "-", "4", "a", ".", "j", "s", "o", "n", "l">>)>>>>,
       <<<<K_workspace_roots, JList(<<JStr(<<"/", "r">>)>>)>>>>,
       <<<<K_workspace_roots, JList(<<JStr(<<"/", "r">>), JStr(<<"/", "q">>)>>)>>>>,
       <<<<K_workspace_roots, JList(<<>>)>>>>,
       <<<<K_workspace_roots, JStr(<<"/", "r">>)>>>>,
       <<<<K_workspace_roots, JNum(<<"5">>)>>>>,
       <<<<K_workspace_roots, JNum(<<"0">>)>>>>,
       <<<<K_workspace_roots, JBool(TRUE)>>>>,
       <<<<K_workspace_roots, JObj(<<<<<<"a">>, JNum(<<"1">>)>>>>)>>>>,
       <<<<K_workspace_roots, JObj(<<>>)>>>>,
       <<<<K_workspace_roots, JList(<<JNum(<<"5">>)>>)>>>>,
       <<<<K_workspace_roots, JNull>>>>,
       <<<<K_cwd, JStr(<<"/", "w">>)>>>>,
       <<<<K_cwd, JStr(<<>>)>>>>,
       <<<<K_cwd, JNum(<<"5">>)>>>>,
       <<<<K_cwd, JStr(<<"/", "w">>)>>, <<K_workspace_roots, JList(<<JStr(<<"/", "r">>)>>)>>>>,
       <<<<K_cwd, JStr(<<"/", "w">>)>>, <<K_workspace_roots, JNum(<<"5">>)>>>>,
       <<<<K_cwd, JStr(<<>>)>>, <<K_workspace_roots, JList(<<JStr(<<"/", "r">>)>>)>>>>,
       <<<<K_cwd, JNull>>, <<K_workspace_roots, JNum(<<"5">>)>>>>,
       <<<<K_transcript_path, JStr(<<"/", "t", "/", "x", ".", "t", "x", "t">>)>>>>,
       <<<<K_transcript_path, JStr(<<"/", "t", "/", "x", ".", "j", "s", "o", "n", "l">>)>>>>,
       <<<<K_transcript_path, JStr(<<>>)>>>>,
       <<<<K_transcript_path, JStr(<<".", "t", "x", "t">>)>>>>,
       <<<<K_transcript_path, JStr(<<"t", "x", "t">>)>>>>,
       <<<<K_transcript_path, JNum(<<"5">>)>>>>,
       <<<<K_transcript_path, JNum(<<"0">>)>>>>,
       <<<<K_transcript_path, JList(<<JStr(<<"a">>)>>)>>>>,
       <<<<K_transcript_path, JList(<<>>)>>>>,
       <<<<K_transcript_path, JNull>>>>,
       <<<<K_transcript_path, JBool(TRUE)>>>>,
       <<<<K_transcript_path, JObj(<<<<<<"a">>, JNum(<<"1">>)>>>>)>>>>,
       <<<<K_tool_name, JStr(<<"R", "e", "a", "d">>)>>, <<K_tool_input, JObj(<<<<<<"p", "a", "t",
          "h">>, JStr(<<"/", "t", "m", "p">>)>>>>)>>, <<K_tool_use_id, JStr(<<"i", "d",
          "1">>)>>>>,
       <<<<K_tool_name, JStr(<<"R", "e", "a", "d">>)>>, <<K_tool_input, JStr(<<"{", "\"", "p",
          "a", "t", "h", "\"", ":", "\"", "/", "t", "m", "p", "\"", "}">>)>>,
          <<K_tool_use_id, JStr(<<"i", "d", "1">>)>>>>,
       <<<<K_tool_name, JStr(<<"R", "e", "a", "d">>)>>, <<K_tool_input, JStr(<<>>)>>,
          <<K_tool_use_id, JStr(<<"i", "d", "1">>)>>>>,
       <<<<K_tool_name, JStr(<<"R", "e", "a", "d">>)>>, <<K_tool_input, JStr(<<"{">>)>>,
          <<K_tool_use_id, JStr(<<"i", "d", "1">>)>>>>,
       <<<<K_tool_name, JStr(<<"R", "e", "a", "d">>)>>, <<K_tool_input, JStr(<<"1">>)>>,
          <<K_tool_use_id, JStr(<<"i", "d", "1">>)>>>>,
       <<<<K_tool_name, JStr(<<"R", "e", "a", "d">>)>>, <<K_tool_input, JStr(<<"[", "1", "]">>)>>,
          <<K_tool_use_id, JStr(<<"i", "d", "1">>)>>>>,
       <<<<K_tool_name, JStr(<<"R", "e", "a", "d">>)>>, <<K_tool_input, JStr(<<"n", "u", "l",
          "l">>)>>, <<K_tool_use_id, JStr(<<"i", "d", "1">>)>>>>,
       <<<<K_tool_name, JStr(<<"R", "e", "a", "d">>)>>, <<K_tool_input, JStr(<<"\"", "x",
          "\"">>)>>, <<K_tool_use_id, JStr(<<"i", "d", "1">>)>>>>,
       <<<<K_tool_name, JStr(<<"R", "e", "a", "d">>)>>, <<K_tool_input, JNum(<<"5">>)>>,
          <<K_tool_use_id, JStr(<<"i", "d", "1">>)>>>>,
       <<<<K_tool_name, JStr(<<"R", "e", "a", "d">>)>>, <<K_tool_input, JNull>>, <<K_tool_use_id,
          JStr(<<"i", "d", "1">>)>>>>,
       <<<<K_tool_name, JStr(<<"R", "e", "a", "d">>)>>, <<K_tool_input,
          JList(<<JNum(<<"1">>)>>)>>, <<K_tool_use_id, JStr(<<"i", "d", "1">>)>>>>,
       <<<<K_tool_name, JStr(<<"R", "e", "a", "d">>)>>, <<K_tool_input, JBool(TRUE)>>,
          <<K_tool_use_id, JStr(<<"i", "d", "1">>)>>>>,
       <<<<K_tool_name, JStr(<<"R", "e", "a", "d">>)>>, <<K_tool_use_id, JStr(<<"i", "d",
          "1">>)>>>>,
       <<<<K_tool_name, JStr(<<"S", "h", "e", "l", "l">>)>>, <<K_tool_input, JObj(<<<<<<"p", "a",
          "t", "h">>, JStr(<<"/", "t", "m", "p">>)>>>>)>>>>,
       <<<<K_tool_name, JNum(<<"5">>)>>, <<K_tool_input, JObj(<<<<<<"p", "a", "t", "h">>,
          JStr(<<"/", "t", "m", "p">>)>>>>)>>>>,
       <<<<K_tool_name, JNull>>, <<K_tool_input, JObj(<<<<<<"p", "a", "t", "h">>, JStr(<<"/", "t",
          "m", "p">>)>>>>)>>>>,
       <<<<K_tool_input, JObj(<<<<<<"p", "a", "t", "h">>, JStr(<<"/", "t", "m", "p">>)>>>>)>>>>,
       <<<<K_tool_name, JStr(<<"R", "e", "a", "d">>)>>, <<K_tool_use_id, JStr(<<>>)>>>>,
       <<<<K_tool_name, JStr(<<"R", "e", "a", "d">>)>>, <<K_tool_use_id, JNum(<<"5">>)>>>>,
       <<<<K_tool_name, JStr(<<"R", "e", "a", "d">>)>>, <<K_tool_use_id, JNull>>>>,
       <<<<K_tool_name, JStr(<<"R", "e", "a", "d">>)>>, <<K_tool_use_id,
          JList(<<JStr(<<"x">>)>>)>>>> >>

\* Texts that are no single well-formed event: the examples of malformed
\* input, values that are no object, and events with text around them.
ExtraTexts ==
    { <<"n", "o", "i", "s", "e", "{", "\"", "a", "\"", ":", "1", "}", "m", "o", "r", "e", "t",
         "r", "a", "i", "l", "i", "n", "g">>,
      <<"{", "\"", "a", "\"", ":", "\"", "x", "\\", "\"", "{", "\\", "\"", "y", "\"", "}">>,
      <<"\"", "n", "o", "t", " ", "j", "s", "o", "n", " ", "a", "t", " ", "a", "l", "l", "\"">>,
      <<"n", "o", "t", " ", "j", "s", "o", "n", " ", "a", "t", " ", "a", "l", "l">>,
      <<"[", "1", ",", " ", "2", "]">>,
      <<"n", "u", "l", "l">>,
      <<"t", "r", "u", "e">>,
      <<"4", "2">>,
      <<"{", "\"", "h", "o", "o", "k", "_", "e", "v", "e", "n", "t", "_", "n", "a", "m", "e",
         "\"", ":", " ", "\"", "s", "t", "o", "p", "\"", "}", "\n">>,
      <<"x", "{", "\"", "h", "o", "o", "k", "_", "e", "v", "e", "n", "t", "_", "n", "a", "m",
         "e", "\"", ":", " ", "\"", "s", "t", "o", "p", "\"", "}", "}">>,
      <<"{", "\"", "h", "o", "o", "k", "_", "e", "v", "e", "n", "t", "_", "n", "a", "m", "e",
         "\"", ":", " ", "\"", "s", "t", "o", "p", "\"", "}", "{", "\"", "a", "\"", ":",
         " ", "1", "}">>,
      <<"{", "\"", "h", "o", "o", "k", "_", "e", "v", "e", "n", "t", "_", "n", "a", "m", "e",
         "\"", ":", " ", "\"", "p", "r", "e", "T", "o", "o", "l", "U", "s", "e", "\"", ",",
         " ", "\"", "t", "o", "o", "l", "_", "i", "n", "p", "u", "t", "\"", ":", " ", "\"",
         "{", "\\", "\"", "p", "a", "t", "h", "\\", "\"", ":", "\\", "\"", "/", "t", "m",
         "p", "\\", "\"", "}", "\"", "}", " ", "t", "r", "a", "i", "l", "i", "n", "g">>,
      <<"{", "\"", "a", "\"", ":", " ", "\"", "}", "\"", "}", " ", "}">>,
      <<"{", "\"", "a", "\"", ":", "\"", "x", "\\", "\"", "{", "\\", "\"", "y", "\"", "}", " ",
         "}">>,
      <<"{", "\"", "a", "\"", ":", " ", "\"", "\\", "\\", "\"", "}", " ", "}">>,
      <<"{", "\"", "s", "e", "s", "s", "i", "o", "n", "_", "i", "d", "\"", ":", " ", "5", "}",
         "x">> }

\* The event with the h-th hook_event_name (0: none) and the sc-th scenario.
Event(h, sc) ==
    JObj((IF h = 0 THEN <<>> ELSE << <<K_hook_event_name, HookValues[h]>> >>)
         \o Scenarios[sc])

\* The events as the calling agent writes them to standard input.
EventTexts == {Dumps(Event(h, sc)) : h \in 0..Len(HookValues), sc \in 1..Len(Scenarios)}

\* The contents of standard input the run is checked on.
Inputs == ShortTexts \cup EventTexts \cup ExtraTexts

\* -------------------------------------------------------------- one run

SOCKET_PATH == "/tmp/claude-island.sock"
TIMEOUT_SECONDS == 5

\* scan_char without the in_string test: braces inside string literals are
\* counted.
scan_char_counts_in_strings(c, scan) ==
    IF scan.escape THEN [scan EXCEPT !.escape = FALSE]
    ELSE IF c = "\\" THEN [scan EXCEPT !.escape = TRUE]
    ELSE IF c = "\"" THEN [scan EXCEPT !.in_string = ~scan.in_string]
    ELSE IF c = "{" THEN [scan EXCEPT !.depth = scan.depth + 1]
    ELSE IF c = "}" THEN [scan EXCEPT !.depth = scan.depth - 1]
    ELSE scan

\* One iteration of parse_input's balanced-brace loop on character c:
\* scan is [depth, in_string, escape] before it and the result after it.
scan_char(c, scan) ==
    IF scan.escape THEN [scan EXCEPT !.escape = FALSE]
    ELSE IF c = "\\" THEN [scan EXCEPT !.escape = TRUE]
    ELSE IF c = "\"" THEN [scan EXCEPT !.in_string = ~scan.in_string]
    ELSE IF scan.in_string THEN scan
    ELSE IF c = "{" THEN [scan EXCEPT !.depth = scan.depth + 1]
    ELSE IF c = "}" THEN [scan EXCEPT !.depth = scan.depth - 1]
    ELSE scan

\* Whether an iteration took the scan from before to after through "}" to
\* depth 0: only the "}" branch lowers the depth.
closes(before, after) == after.depth < before.depth /\ after.depth = 0

\* if start >= 0 and end > start: json.loads(raw[start : end + 1]); ok is
\* FALSE when the slice is not tried or does not parse.
outer_slice(raw, start, end) ==
    IF start # 0 /\ end > start THEN Loads(SubSeq(raw, start, end)) ELSE Fail

\* The state main() of the running script hands to send_event.
main_state(profile, data) == IF profile = "cursor" THEN cursor_main(data) ELSE pi_main(data)

\* A send_event that tries again after a failure.
retry_after_send_failure == "connect"

\* Where a failed connect or sendall of send_event goes: "except Exception:
\* pass" returns to main, which returns to the wrapper's print.
after_send_failure == "print"

VARIABLES
    profile,    \* which script runs: "cursor" or "pi"
    stdin,      \* the text on standard input
    readable,   \* whether sys.stdin.read() returns it (FALSE: it raises)
    pc,         \* the statement the run is at
    raw,        \* main's raw
    start,      \* parse_input's start (0: no "{")
    i,          \* the loop index of the balanced-brace scan
    scan,       \* its depth, in_string and escape
    candidate,  \* the substring the scan handed to json.loads, <<>> if none
    strategy,   \* which strategy of parse_input returned (0: none did)
    data,       \* what parse_input returned (JNull is None)
    state,      \* the state dict main built
    calls,      \* how many times send_event was called
    connects,   \* how many times sock.connect was called
    sends,      \* how many times sock.sendall was called
    wire,       \* the payloads the socket took, in order
    stdout,     \* the lines printed to standard output
    exit_status \* the exit status, -1 while the run goes on

vars == <<profile, stdin, readable, pc, raw, start, i, scan, candidate, strategy, data,
          state, calls, connects, sends, wire, stdout, exit_status>>

inputVars == <<profile, stdin, readable>>
parseVars == <<raw, start, i, scan, candidate, strategy, data>>
sendVars == <<state, calls, connects, sends, wire>>
outVars == <<stdout, exit_status>>

\* raw = sys.stdin.read(); when it raises, main returns.
ReadStdin ==
    /\ pc = "read"
    /\ IF readable
       THEN raw' = stdin /\ pc' = "direct"
       ELSE raw' = raw /\ pc' = "print"
    /\ UNCHANGED <<inputVars, start, i, scan, candidate, strategy, data, sendVars, outVars>>

\* parse_input, 1: return json.loads(raw)
DirectParse ==
    /\ pc = "direct"
    /\ \E direct \in {Loads(raw)} :
           IF direct.ok
           THEN data' = direct.v /\ strategy' = 1 /\ pc' = "main"
           ELSE data' = data /\ strategy' = strategy /\ pc' = "slice"
    /\ UNCHANGED <<inputVars, raw, start, i, scan, candidate, sendVars, outVars>>

\* parse_input, 2: the text from the first "{" to the last "}"; when that
\* does not parse, the scan starts at the first "{", and with no "{" in raw
\* parse_input returns None.
SliceParse ==
    /\ pc = "slice"
    /\ start' = find(raw, "{")
    /\ \E sliced \in {outer_slice(raw, start', rfind(raw, "}"))} :
           IF sliced.ok
           THEN data' = sliced.v /\ strategy' = 2 /\ pc' = "main" /\ i' = i
           ELSE IF start' # 0
           THEN data' = data /\ strategy' = strategy /\ pc' = "scan" /\ i' = start'
           ELSE data' = JNull /\ strategy' = strategy /\ pc' = "main" /\ i' = i
    /\ UNCHANGED <<inputVars, raw, scan, candidate, sendVars, outVars>>

\* parse_input, 3: one iteration of the loop.  At depth 0 the text from start
\* to i goes to json.loads: its value is returned, or the loop breaks and
\* parse_input returns None.
ScanStep ==
    /\ pc = "scan"
    /\ i <= Len(raw)
    /\ scan' = scan_char(raw[i], scan)
    /\ IF closes(scan, scan')
       THEN /\ candidate' = SubSeq(raw, start, i)
            /\ i' = i
            /\ pc' = "main"
            /\ \E balanced \in {Loads(candidate')} :
                   IF balanced.ok
                   THEN data' = balanced.v /\ strategy' = 3
                   ELSE data' = JNull /\ strategy' = strategy
       ELSE /\ i' = i + 1
            /\ UNCHANGED <<candidate, pc, data, strategy>>
    /\ UNCHANGED <<inputVars, raw, start, sendVars, outVars>>

\* parse_input, 3: the loop ran off the end of raw: return None.
ScanEnd ==
    /\ pc = "scan"
    /\ i > Len(raw)
    /\ data' = JNull
    /\ pc' = "main"
    /\ UNCHANGED <<inputVars, raw, start, i, scan, candidate, strategy, sendVars, outVars>>

\* main after parse_input: return when data is None; else build the state
\* and call send_event(state).  An exception goes to the wrapper's except.
MainBody ==
    /\ pc = "main"
    /\ IF data.t = "null"
       THEN pc' = "print" /\ UNCHANGED <<state, calls>>
       ELSE \E built \in {main_state(profile, data)} :
                IF built.raised
                THEN pc' = "except" /\ UNCHANGED <<state, calls>>
                ELSE state' = built.v /\ calls' = calls + 1 /\ pc' = "connect"
    /\ UNCHANGED <<inputVars, parseVars, connects, sends, wire, outVars>>

\* send_event: socket(), settimeout(TIMEOUT_SECONDS), connect(SOCKET_PATH).
\* The connect is made, is refused (no socket file, nobody listening) or
\* times out; a failure is swallowed and send_event returns.
Connect ==
    /\ pc = "connect"
    /\ connects' = connects + 1
    /\ \E outcome \in {"connected", "refused", "timeout"} :
           pc' = IF outcome = "connected" THEN "sendall" ELSE after_send_failure
    /\ UNCHANGED <<inputVars, parseVars, state, calls, sends, wire, outVars>>

\* send_event: sendall(json.dumps(state).encode()), then close().  The write
\* is taken, fails or times out; either way send_event returns.
SendAll ==
    /\ pc = "sendall"
    /\ sends' = sends + 1
    /\ \E outcome \in {"sent", "failed", "timeout"} :
           /\ wire' = IF outcome = "sent" THEN Append(wire, Dumps(state)) ELSE wire
           /\ pc' = IF outcome = "sent" THEN "print" ELSE after_send_failure
    /\ UNCHANGED <<inputVars, parseVars, state, calls, connects, outVars>>

\* The wrapper: main() returned, print("{}").
PrintBraces ==
    /\ pc = "print"
    /\ stdout' = Append(stdout, <<"{", "}">>)
    /\ pc' = "exit"
    /\ exit_status' = 0
    /\ UNCHANGED <<inputVars, parseVars, sendVars>>

\* The wrapper: main() raised, "except Exception: pass".
Except ==
    /\ pc = "except"
    /\ pc' = "exit"
    /\ exit_status' = 0
    /\ UNCHANGED <<inputVars, parseVars, sendVars, stdout>>

Next ==
    \/ ReadStdin
    \/ DirectParse
    \/ SliceParse
    \/ ScanStep
    \/ ScanEnd
    \/ MainBody
    \/ Connect
    \/ SendAll
    \/ PrintBraces
    \/ Except

Init ==
    /\ profile \in {"cursor", "pi"}
    /\ \/ readable = TRUE /\ stdin \in Inputs
       \/ readable = FALSE /\ stdin = <<>>
    /\ pc = "read"
    /\ raw = <<>>
    /\ start = 0
    /\ i = 0
    /\ scan = [depth |-> 0, in_string |-> FALSE, escape |-> FALSE]
    /\ candidate = <<>>
    /\ strategy = 0
    /\ data = JNull
    /\ state = JNull
    /\ calls = 0
    /\ connects = 0
    /\ sends = 0
    /\ wire = <<>>
    /\ stdout = <<>>
    /\ exit_status = -1

Spec == Init /\ [][Next]_vars

\* ----------------------------------------------------------------- claims

\* send_event was called: state is the record handed to it.
Delivered == calls > 0

\* The event's hook_event_name, "" when it has none.
EventName == Get(data, K_hook_event_name, JStr(<<>>))

IsToolEvent == StrEq(EventName, E_preToolUse) \/ StrEq(EventName, E_postToolUse)

\* The run is over.
Exited == pc = "exit"

\* C1: whatever standard input holds, a run that has ended has written
\* exactly the line {} to standard output and ended with status 0.
C1_AlwaysPrintsBraces ==
    Exited => stdout = << <<"{", "}">> >> /\ exit_status = 0

\* C2: for every event that is a JSON object, whatever the types of its
\* fields, main raises nothing and hands exactly one record to send_event.
C2_NormalizerNeverFails ==
    /\ pc = "except" => ~IsObj(data)
    /\ Exited /\ IsObj(data) => calls = 1 /\ IsObj(state)

\* C3: what parse_input returns to main is a JSON object or None.
C3_ObjectOrNone ==
    pc = "main" => data.t \in {"obj", "null"}

\* The documented status of an event name.
DocumentedStatus(event) ==
    CASE StrEq(event, E_beforeSubmitPrompt) -> S_processing
      [] StrEq(event, E_preToolUse) -> S_running_tool
      [] StrEq(event, E_postToolUse) -> S_processing
      [] StrEq(event, E_stop) -> S_waiting_for_input
      [] StrEq(event, E_subagentStop) -> S_waiting_for_input
      [] StrEq(event, E_sessionStart) -> S_waiting_for_input
      [] StrEq(event, E_sessionEnd) -> S_ended
      [] StrEq(event, E_preCompact) -> S_compacting
      [] OTHER -> S_unknown

\* C4: under both profiles every record handed to send_event has a status,
\* and it is the documented status of the event's hook_event_name (unknown
\* for a name outside the table, a value that is no string, or none).
C4_StatusTableTotal ==
    Delivered =>
        /\ HasKey(state, K_status)
        /\ StrEq(Get(state, K_status, JNull), DocumentedStatus(EventName))

\* A pi record for preCompact with other fields set, and a cursor record for
\* an event with no hook_event_name.
C4_Witness ==
    /\ Delivered
    /\ \/ /\ profile = "pi"
          /\ StrEq(EventName, E_preCompact)
          /\ HasKey(data, K_tool_name)
          /\ StrEq(Get(state, K_status, JNull), S_compacting)
       \/ /\ profile = "cursor"
          /\ ~HasKey(data, K_hook_event_name)
          /\ HasKey(data, K_conversation_id)
          /\ StrEq(Get(state, K_status, JNull), S_unknown)
    /\ Exited

\* C5: send_event is called at most once, connects at most once and writes
\* at most once, with no retry after a failure; and when standard input is
\* unreadable or parse_input returned None it is not called at all.
C5_AtMostOnce ==
    /\ calls <= 1 /\ connects <= 1 /\ sends <= 1 /\ Len(wire) <= 1
    /\ connects <= calls /\ sends <= connects /\ Len(wire) <= sends
    /\ (~readable \/ data.t = "null") => calls = 0 /\ connects = 0 /\ wire = <<>>

\* A run that ended after its one connect failed: nothing was written and
\* nothing was tried again.
C5_Witness ==
    Exited /\ calls = 1 /\ connects = 1 /\ sends = 0 /\ wire = <<>>

\* The identifier main resolves from the profile's fields, before the
\* substitution of "unknown".
C6_Resolved ==
    IF profile = "cursor"
    THEN Or(Get(data, K_conversation_id, JNull), Get(data, K_session_id, JNull))
    ELSE IF IsStr(Get(data, K_session_id, JNull))
            /\ find(Get(data, K_session_id, JNull).v, "/") # 0
    THEN JStr(pi_path_to_id(Get(data, K_session_id, JNull).v))
    ELSE Get(data, K_session_id, JNull)

\* C6: under both profiles the record's session_id is a non-empty string,
\* and it is "unknown" when the resolved identifier is absent, empty or
\* "ephemeral".
C6_SessionIdNonEmptyString ==
    Delivered =>
        /\ IsStr(Get(state, K_session_id, JNull))
        /\ Len(Get(state, K_session_id, JNull).v) > 0
        /\ (~Truthy(C6_Resolved) \/ StrEq(C6_Resolved, S_ephemeral))
               => StrEq(Get(state, K_session_id, JNull), S_unknown)

\* A text shaped like <timestamp>_<uuid>.jsonl: digits and T, an underscore,
\* hexadecimal digits and dashes, and the extension.
IsTimestampUuidFile(name) ==
    /\ endswith(name, S_jsonl)
    /\ LET stem == SubSeq(name, 1, Len(name) - 6)
           u == find(stem, "_")
       IN  /\ u > 1 /\ u < Len(stem)
           /\ \A n \in 1..(u - 1) : stem[n] \in Digits \cup {"T"}
           /\ \A n \in (u + 1)..Len(stem) : stem[n] \in HexDigits \cup {"-"}

\* The <uuid> of such a text.
UuidOf(name) == SubSeq(name, find(name, "_") + 1, Len(name) - 6)

\* What follows the last "/" of a path.
FileName(path) ==
    SubSeq(path, (CHOOSE n \in 0..Len(path) :
                      (n = 0 \/ path[n] = "/") /\ \A m \in (n + 1)..Len(path) : path[m] # "/") + 1,
           Len(path))

\* The raw session_id of the event.
RawSessionId == Get(data, K_session_id, JNull)

\* C7 as stated: under pi, a raw session_id shaped like
\* <timestamp>_<uuid>.jsonl gives the session_id <uuid>.
C7_FileNameToUuid ==
    (Delivered /\ profile = "pi" /\ IsStr(RawSessionId)
        /\ IsTimestampUuidFile(RawSessionId.v))
    => StrEq(Get(state, K_session_id, JNull), UuidOf(RawSessionId.v))

\* C7 amended: under pi, a raw session_id that is a path with "/" in it and
\* a file name shaped like <timestamp>_<uuid>.jsonl gives the session_id
\* <uuid> and the path as transcript_path; a raw session_id of that shape
\* with no "/" in it is kept whole and gives no transcript_path.
C7_PathToUuid ==
    (Delivered /\ profile = "pi" /\ IsStr(RawSessionId))
    => /\ (find(RawSessionId.v, "/") # 0 /\ IsTimestampUuidFile(FileName(RawSessionId.v)))
          => /\ StrEq(Get(state, K_session_id, JNull), UuidOf(FileName(RawSessionId.v)))
             /\ StrEq(Get(state, K_transcript_path, JNull), RawSessionId.v)
       /\ IsTimestampUuidFile(RawSessionId.v)
          => /\ StrEq(Get(state, K_session_id, JNull), RawSessionId.v)
             /\ ~HasKey(state, K_transcript_path)

ExampleUuid ==
    <<"5", "5", "0", "e", "8", "4", "0", "0", "-", "e", "2", "9", "b", "-", "4", "1", "d", "4",
      "-", "a", "7", "1", "6", "-", "4", "4", "6", "6", "5", "5", "4", "4", "0", "0", "0", "0">>

\* The documented example as the file name of a path: the record carries its
\* uuid.
C7_Witness ==
    /\ Delivered /\ profile = "pi" /\ IsStr(RawSessionId)
    /\ find(RawSessionId.v, "/") # 0
    /\ IsTimestampUuidFile(FileName(RawSessionId.v))
    /\ StrEq(Get(state, K_session_id, JNull), ExampleUuid)
    /\ Len(wire) = 1

\* The tool_input the claim describes for an event.
C8_Expected ==
    IF ~HasKey(data, K_tool_input) THEN JObj(<<>>)
    ELSE IF ~IsStr(Lookup(data, K_tool_input)) THEN Lookup(data, K_tool_input)
    ELSE IF Len(Lookup(data, K_tool_input).v) > 0 /\ Loads(Lookup(data, K_tool_input).v).ok
    THEN Loads(Lookup(data, K_tool_input).v).v
    ELSE JObj(<<>>)

\* C8: the record of a preToolUse or postToolUse event has a tool_input that
\* is a JSON object: the value parsed from a JSON-encoded string, {} for an
\* empty or unparseable string or an absent field, the raw value otherwise.
C8_ToolInputIsObject ==
    (Delivered /\ IsToolEvent) =>
        /\ HasKey(state, K_tool_input)
        /\ IsObj(Get(state, K_tool_input, JNull))
        /\ Dumps(Get(state, K_tool_input, JNull)) = Dumps(C8_Expected)

HasToolKey ==
    \/ HasKey(state, K_tool)
    \/ HasKey(state, K_tool_input)
    \/ HasKey(state, K_tool_use_id)
    \/ HasKey(state, K_tool_display)

\* C9: a record carries tool, tool_input, tool_use_id or tool_display only
\* if its event is preToolUse or postToolUse.
C9_ToolKeysOnlyForToolEvents ==
    (Delivered /\ HasToolKey) => IsToolEvent

\* A beforeSubmitPrompt event that names a tool, its input and its id: the
\* record has status processing and none of the tool keys.
C9_Witness ==
    /\ Delivered
    /\ StrEq(EventName, E_beforeSubmitPrompt)
    /\ HasKey(data, K_tool_name) /\ HasKey(data, K_tool_input) /\ HasKey(data, K_tool_use_id)
    /\ StrEq(Get(state, K_status, JNull), S_processing)
    /\ ~HasToolKey

\* Position k of raw is escaped: the character before it is a backslash that
\* is not itself escaped (positions from start on).
RECURSIVE IsEscaped(_)
IsEscaped(k) == k > start /\ raw[k - 1] = "\\" /\ ~IsEscaped(k - 1)

\* Position k of raw lies inside a string literal: an odd number of quotes
\* that are not escaped come before it.
InsideString(k) ==
    Cardinality({q \in start..(k - 1) : raw[q] = "\"" /\ ~IsEscaped(q)}) % 2 = 1

\* The braces from start to k outside string literals: "{" less "}".
DepthOutsideStrings(k) ==
    Cardinality({q \in start..k : raw[q] = "{" /\ ~InsideString(q)})
    - Cardinality({q \in start..k : raw[q] = "}" /\ ~InsideString(q)})

\* The same, counting only the braces that are not escaped.
DepthOfUnescaped(k) ==
    Cardinality({q \in start..k : raw[q] = "{" /\ ~InsideString(q) /\ ~IsEscaped(q)})
    - Cardinality({q \in start..k : raw[q] = "}" /\ ~InsideString(q) /\ ~IsEscaped(q)})

\* C10 as stated: at every position of the scan the depth counts the braces
\* outside string literals, and the candidate ends at the first position
\* where that count is back to 0.
C10_DepthOutsideStrings ==
    /\ pc = "scan" => scan.depth = DepthOutsideStrings(i - 1)
    /\ candidate # <<>> =>
           /\ DepthOutsideStrings(start + Len(candidate) - 1) = 0
           /\ \A k \in start..(start + Len(candidate) - 2) : DepthOutsideStrings(k) > 0

\* C10 amended: no brace inside a string literal is counted, nor a brace
\* right after an unescaped backslash outside one: at every position of the
\* scan the depth counts the unescaped braces outside string literals, a
\* quote toggles the string context unless it is escaped, and the candidate
\* ends at the first position where that count is back to 0.
C10_DepthOfUnescaped ==
    /\ pc = "scan" =>
           /\ scan.depth = DepthOfUnescaped(i - 1)
           /\ scan.in_string = InsideString(i)
           /\ scan.escape = IsEscaped(i)
           /\ \A k \in start..(i - 1) : DepthOfUnescaped(k) > 0
    /\ candidate # <<>> =>
           /\ candidate = SubSeq(raw, start, start + Len(candidate) - 1)
           /\ DepthOfUnescaped(start + Len(candidate) - 1) = 0
           /\ \A k \in start..(start + Len(candidate) - 2) : DepthOfUnescaped(k) > 0

\* The scan closed a candidate that holds a brace inside a string literal
\* and an escaped quote, and the candidate parsed.
C10_Witness ==
    /\ candidate # <<>>
    /\ strategy = 3
    /\ \E q \in start..(start + Len(candidate) - 1) :
           raw[q] \in {"{", "}"} /\ InsideString(q)
    /\ \E q \in start..(start + Len(candidate) - 1) :
           raw[q] = "\"" /\ IsEscaped(q)

====
